---- MODULE Spec2Model ----
(***************************************************************************)
(* Upstalua: backup of Steam plug-in (.lua) and statistics (.bin) files.   *)
(* Model of the incremental file synchronisation (backup_game_files,       *)
(* should_backup_file, _report_backup_results), of the identity-set merge  *)
(* (merge_appids) and of the configuration load (load_config).             *)
(*                                                                         *)
(* File names and identifiers are strings, written as sequences of         *)
(* one-character strings so that the glob match can be computed.  A file   *)
(* system entry is absent, a directory, or a regular file with a byte      *)
(* content; contents are numbered 1..NData.                                *)
(*                                                                         *)
(* What the model leaves out: file times and sizes (a write is taken to    *)
(* change the stat signature of the file, so the cache of filecmp never    *)
(* answers for stale bytes), I/O errors of the copy, and entries of the    *)
(* plug-in folder that are not regular files (the statistics folder, where *)
(* the code tests os.path.isfile, does hold directories).                  *)
(***************************************************************************)
EXTENDS Integers, Sequences, FiniteSets, TLC

VARIABLES
    src,            \* source folders under steam_path, one per category
    dst,            \* the backup tree under BACKUP_FOLDER
    appids_dict,    \* the identity set handed to backup_game_files
    saved_files,    \* records of the last call
    skipped_files,
    missing_files,
    ret,            \* what the last call returned
    reported,       \* whether the last call reached _report_backup_results
    last,           \* the last call and the state it started from
    existing_dict,  \* merge_appids: the mapping loaded from the configuration
    new_appids,     \* merge_appids: the identifiers found in the plug-in folder
    merged,         \* merge_appids: what the call returned and announced
    config_file,    \* CONFIG_FILE on disk
    loaded,         \* what load_config returned
    install,        \* the folder at the Steam path: whether it exists, its entries
    validated,      \* validate_steam_path: the last call and its result
    known_names,    \* update_game_names: the mapping it is given
    detected,       \* update_game_names: the identifiers it is given
    lookup,         \* get_game_name: one call, its response and its outcome
    named,          \* update_game_names: requests sent and outcome
    registry,       \* what each key of REGISTRY_PATHS answers
    disk,           \* the folder at each path a Steam path can name
    located,        \* setup_steam_path: where the path came from
    run,            \* run_backup: the next step and the two success flags
    main            \* main: the next step, what was decided, what was printed

syncVars == <<src, dst, appids_dict, saved_files, skipped_files, missing_files,
              ret, reported, last>>

mergeVars == <<existing_dict, new_appids, merged>>

configVars == <<config_file, loaded>>

validateVars == <<install, validated>>

namesVars == <<known_names, detected, lookup, named>>

locateVars == <<registry, disk, located>>

runVars == <<run>>

mainVars == <<main>>

vars == <<syncVars, mergeVars, configVars, validateVars, namesVars, locateVars, runVars,
         mainVars>>

notSync == <<mergeVars, configVars, validateVars, namesVars, locateVars, runVars,
    mainVars>>

notMerge == <<syncVars, configVars, validateVars, namesVars, locateVars, runVars,
    mainVars>>

notConfig == <<syncVars, mergeVars, validateVars, namesVars, locateVars, runVars,
    mainVars>>

notValidate == <<syncVars, mergeVars, configVars, namesVars, locateVars, runVars,
    mainVars>>

notNames == <<syncVars, mergeVars, configVars, validateVars, locateVars, runVars,
    mainVars>>

\* setup_steam_path reads the configuration file
notLocate == <<syncVars, mergeVars, loaded, validateVars, namesVars, runVars,
    mainVars>>

\* main reads the configuration file and leaves it to save_config
notMain == <<syncVars, mergeVars, configVars, validateVars, namesVars, locateVars, runVars>>

\* run_backup calls backup_game_files, which changes the synchronisation
notRun == <<mergeVars, configVars, validateVars, namesVars, locateVars,
    mainVars>>

-----------------------------------------------------------------------------
(* Bounds *)

NData == 2          \* distinct byte contents of a file

MaxDiscovered == 2  \* length of the list of discovered identifiers

MaxListed == 2      \* length of a legacy appids list in the configuration

-----------------------------------------------------------------------------
(* Identifiers, file names, entries *)

Id1 == <<"1">>

Id10 == <<"1", "0">>

AllIds == {Id1, Id10}

Categories == {"plugins", "stats"}

BACKUP_FOLDER == <<"backup">>

file_extension(backup_type) ==
    IF backup_type = "plugins" THEN <<".", "l", "u", "a">> ELSE <<".", "b", "i", "n">>

backup_subfolder(backup_type) ==
    IF backup_type = "plugins" THEN <<"config", "stplug-in">> ELSE <<"appcache", "stats">>

backup_path(backup_type) == BACKUP_FOLDER \o backup_subfolder(backup_type)

\* The files the plug-in folder can hold: <identifier>.lua, regular files
PluginNames == {id \o file_extension("plugins") : id \in AllIds}

\* The entries the statistics folder can hold: the schema file of each
\* identifier and one hidden file.
StatsPrefix == <<"s", "_">>

HiddenName == <<".", "1">>

StatsNames == {StatsPrefix \o id \o file_extension("stats") : id \in AllIds} \cup {HiddenName}

NamesOf(backup_type) == IF backup_type = "plugins" THEN PluginNames ELSE StatsNames

Absent == [kind |-> "absent", data |-> 0]

Dir == [kind |-> "dir", data |-> 0]

File(d) == [kind |-> "file", data |-> d]

Files == {File(d) : d \in 1..NData}

EmptyTree(backup_type) == [n \in NamesOf(backup_type) |-> Absent]

NoFolder(backup_type) == [exists |-> FALSE, files |-> EmptyTree(backup_type)]

\* os.path.exists / os.path.isfile on an entry
exists(e) == e.kind # "absent"

isfile(e) == e.kind = "file"

-----------------------------------------------------------------------------
(* Python dict: keys in insertion order, each with its value *)

Keys(d) == [i \in 1..Len(d) |-> d[i].k]

KeySet(d) == {d[i].k : i \in 1..Len(d)}

Get(d, key) == (CHOOSE i \in 1..Len(d) : d[i].k = key) \* d[key]

Value(d, key) == d[Get(d, key)].v

\* The display label the model gives each identifier of the identity set
NameOf(id) == IF id = Id1 THEN "Game" ELSE "Unknown"

KeyLists ==
    {<<>>} \cup {<<a>> : a \in AllIds}
           \cup {l \in {<<a, b>> : a, b \in AllIds} : l[1] # l[2]}

DictOf(keys) == [i \in 1..Len(keys) |-> [k |-> keys[i], v |-> NameOf(keys[i])]]

IdentitySets == {DictOf(keys) : keys \in KeyLists}

-----------------------------------------------------------------------------
(* ChangeDetector *)

\* filecmp.cmp(f1, f2, shallow=False): both regular files with equal bytes
filecmp_cmp(source, dest) ==
    /\ isfile(source)
    /\ isfile(dest)
    /\ source.data = dest.data

\* The content comparison left out: an existing destination counts as current
should_backup_file_exists_only(source, dest) ==
    IF ~exists(dest) THEN <<TRUE, "new">> ELSE <<FALSE, "unchanged">>

should_backup_file(source, dest) ==
    IF ~exists(dest) THEN <<TRUE, "new">>
    ELSE IF ~filecmp_cmp(source, dest) THEN <<TRUE, "modified">>
    ELSE <<FALSE, "unchanged">>

\* A copy that writes nothing
copy2_nothing(tree, filename, source) == tree

\* A copy that creates the destination but writes it only when it is new
copy2_create_only(tree, filename, source) ==
    IF exists(tree[filename]) THEN tree ELSE [tree EXCEPT ![filename] = source]

\* shutil.copy2(source_file, dest_file): the destination becomes the source
copy2(tree, filename, source) == [tree EXCEPT ![filename] = source]

-----------------------------------------------------------------------------
(* SyncEngine *)

\* glob.glob("*<appid>*") on one name: the identifier occurs in the name, and
\* a pattern starting with "*" never matches a name starting with "."
glob_match(appid, name) ==
    /\ name[1] # "."
    /\ \E i \in 1..(Len(name) - Len(appid) + 1) :
           SubSeq(name, i, i + Len(appid) - 1) = appid

NoRecords(dest) == [dest |-> dest, saved |-> <<>>, skipped |-> <<>>, missing |-> <<>>]

\* One file of either category: classify, copy when new or modified, record
BackupOne(acc, filename, source, appid, dict) ==
    LET decision == should_backup_file(source, acc.dest[filename]) IN
    IF decision[1]
    THEN [acc EXCEPT !.dest = copy2(acc.dest, filename, source),
                     !.saved = Append(@, [filename |-> filename, reason |-> decision[2],
                                          appid |-> appid, game |-> Value(dict, appid)])]
    ELSE [acc EXCEPT !.skipped = Append(@, [filename |-> filename, appid |-> appid,
                                            game |-> Value(dict, appid)])]

RECURSIVE PluginLoop(_, _, _, _)
PluginLoop(appid_list, dict, source, acc) ==
    IF appid_list = <<>> THEN acc
    ELSE LET appid == Head(appid_list)
             filename == appid \o file_extension("plugins")
             next == IF exists(source[filename])
                     THEN BackupOne(acc, filename, source[filename], appid, dict)
                     ELSE [acc EXCEPT !.missing = Append(@, [filename |-> filename,
                                          appid |-> appid, game |-> Value(dict, appid)])]
         IN PluginLoop(Tail(appid_list), dict, source, next)

\* for source_file in glob.glob(pattern): listing is the directory order
\* The loop without the os.path.isfile test
RECURSIVE GlobLoop_any_entry(_, _, _, _, _)
GlobLoop_any_entry(listing, appid, dict, source, acc) ==
    IF listing = <<>> THEN acc
    ELSE LET filename == Head(listing)
             next == IF exists(source[filename]) /\ glob_match(appid, filename)
                     THEN BackupOne(acc, filename, source[filename], appid, dict)
                     ELSE acc
         IN GlobLoop_any_entry(Tail(listing), appid, dict, source, next)

RECURSIVE GlobLoop(_, _, _, _, _)
GlobLoop(listing, appid, dict, source, acc) ==
    IF listing = <<>> THEN acc
    ELSE LET filename == Head(listing)
             next == IF /\ exists(source[filename])
                        /\ glob_match(appid, filename)
                        /\ isfile(source[filename])
                     THEN BackupOne(acc, filename, source[filename], appid, dict)
                     ELSE acc
         IN GlobLoop(Tail(listing), appid, dict, source, next)

RECURSIVE StatsLoop(_, _, _, _, _)
StatsLoop(appid_list, listing, dict, source, acc) ==
    IF appid_list = <<>> THEN acc
    ELSE StatsLoop(Tail(appid_list), listing, dict, source,
                   GlobLoop(listing, Head(appid_list), dict, source, acc))

\* Failure as soon as one plug-in file is missing
_report_backup_results_missing_fails(saved, skipped, missing, backup_type) ==
    IF (missing # <<>> \/ (saved = <<>> /\ skipped = <<>>)) /\ backup_type = "plugins"
    THEN "False" ELSE "True"

\* Failure of either category when nothing was saved or skipped
_report_backup_results_any_type(saved, skipped, missing, backup_type) ==
    IF saved = <<>> /\ skipped = <<>> THEN "False" ELSE "True"

_report_backup_results(saved, skipped, missing, backup_type) ==
    IF saved = <<>> /\ skipped = <<>> /\ backup_type = "plugins" THEN "False" ELSE "True"

\* os.makedirs(path, exist_ok=True): the path and every parent
makedirs(dirs, path) == dirs \cup {SubSeq(path, 1, k) : k \in 1..Len(path)}

Listings(backup_type) ==
    {l \in [1..Cardinality(NamesOf(backup_type)) -> NamesOf(backup_type)] :
        \A i, j \in DOMAIN l : i # j => l[i] # l[j]}

\* The call being made: its arguments, the trees it starts from and, when it
\* repeats the previous call with nothing changed in between, what that
\* previous call saved
Call(op, backup_type) ==
    LET repeat == last.op = op /\ last.backup_type = backup_type IN
    [op |-> op, backup_type |-> backup_type, src |-> src, dst |-> dst,
     repeat |-> repeat, prior |-> IF repeat THEN saved_files ELSE <<>>]

NoCall ==
    [op |-> "none", backup_type |-> "none", src |-> src, dst |-> dst,
     repeat |-> FALSE, prior |-> <<>>]

\* The folder test skipped
source_folder_exists_unchecked(backup_type) == TRUE

\* os.path.exists(source_folder)
source_folder_exists(backup_type) == src[backup_type].exists

\* The empty identity set not recognised
no_games_unchecked(dict) == FALSE

\* not appids_dict
no_games(dict) == dict = <<>>

backup_game_files(backup_type) ==
    /\ last' = Call("backup_game_files", backup_type)
    /\ UNCHANGED <<src, appids_dict>>
    /\ IF ~source_folder_exists(backup_type)
       THEN /\ ret' = "False"
            /\ reported' = FALSE
            /\ saved_files' = <<>>
            /\ skipped_files' = <<>>
            /\ missing_files' = <<>>
            /\ UNCHANGED dst
       ELSE IF no_games(appids_dict)
       THEN /\ ret' = "True"
            /\ reported' = FALSE
            /\ saved_files' = <<>>
            /\ skipped_files' = <<>>
            /\ missing_files' = <<>>
            /\ UNCHANGED dst
       ELSE \E listing \in Listings(backup_type) :
            LET source == src[backup_type].files
                start == NoRecords(dst[backup_type])
                done == IF backup_type = "plugins"
                        THEN PluginLoop(Keys(appids_dict), appids_dict, source, start)
                        ELSE StatsLoop(Keys(appids_dict), listing, appids_dict, source, start)
            IN /\ dst' = [dst EXCEPT !.dirs = makedirs(@, backup_path(backup_type)),
                                     ![backup_type] = done.dest]
               /\ saved_files' = done.saved
               /\ skipped_files' = done.skipped
               /\ missing_files' = done.missing
               /\ reported' = TRUE
               /\ ret' = _report_backup_results(done.saved, done.skipped, done.missing,
                                                backup_type)

BackupPlugins ==
    /\ backup_game_files("plugins")
    /\ UNCHANGED notSync

BackupStats ==
    /\ backup_game_files("stats")
    /\ UNCHANGED notSync

\* A direct call of the change detector on one source file and its destination
ShouldBackupFile ==
    \E backup_type \in Categories : \E filename \in NamesOf(backup_type) :
        /\ isfile(src[backup_type].files[filename])
        /\ last' = [Call("should_backup_file", backup_type) EXCEPT !.repeat = FALSE,
                                                                    !.prior = <<>>]
        /\ LET decision == should_backup_file(src[backup_type].files[filename],
                                              dst[backup_type][filename])
           IN /\ ret' = IF decision[1] THEN "True" ELSE "False"
              /\ saved_files' = <<[filename |-> filename, reason |-> decision[2]]>>
        /\ skipped_files' = <<>>
        /\ missing_files' = <<>>
        /\ reported' = FALSE
        /\ UNCHANGED <<src, dst, appids_dict>>
        /\ UNCHANGED notSync

-----------------------------------------------------------------------------
(* The environment: Steam and the user change the source folders and the   *)
(* identity set between calls.  What the last call returned is forgotten.  *)

Forget ==
    /\ ret' = "none"
    /\ reported' = FALSE
    /\ saved_files' = <<>>
    /\ skipped_files' = <<>>
    /\ missing_files' = <<>>
    /\ last' = [NoCall EXCEPT !.src = src', !.dst = dst']
    /\ UNCHANGED notSync

Other(backup_type) == IF backup_type = "plugins" THEN "stats" ELSE "plugins"

\* The source folder appears; one behaviour populates one category
CreateSourceFolder ==
    \E backup_type \in Categories :
        /\ ~src[backup_type].exists
        /\ ~src[Other(backup_type)].exists
        /\ src' = [src EXCEPT ![backup_type].exists = TRUE]
        /\ UNCHANGED <<dst, appids_dict>>
        /\ Forget

WriteSourceFile ==
    \E backup_type \in Categories : \E filename \in NamesOf(backup_type) : \E f \in Files :
        /\ src[backup_type].exists
        /\ src[backup_type].files[filename] # f
        /\ src[backup_type].files[filename].kind # "dir"
        /\ src' = [src EXCEPT ![backup_type].files[filename] = f]
        /\ UNCHANGED <<dst, appids_dict>>
        /\ Forget

DeleteSourceEntry ==
    \E backup_type \in Categories : \E filename \in NamesOf(backup_type) :
        /\ exists(src[backup_type].files[filename])
        /\ src' = [src EXCEPT ![backup_type].files[filename] = Absent]
        /\ UNCHANGED <<dst, appids_dict>>
        /\ Forget

\* A sub-directory of the statistics folder
MakeSourceDir ==
    \E filename \in StatsNames :
        /\ src["stats"].exists
        /\ ~exists(src["stats"].files[filename])
        /\ src' = [src EXCEPT !["stats"].files[filename] = Dir]
        /\ UNCHANGED <<dst, appids_dict>>
        /\ Forget

SetIdentitySet ==
    \E d \in IdentitySets :
        /\ d # appids_dict
        /\ appids_dict' = d
        /\ UNCHANGED <<src, dst>>
        /\ Forget

-----------------------------------------------------------------------------

(* Python values: None, a list and a dict (keys in insertion order) *)

PyNone == [type |-> "NoneType", items |-> <<>>]

PyList(items) == [type |-> "list", items |-> items]

PyDict(items) == [type |-> "dict", items |-> items]

Labels == {"Unknown", "Game"}

\* Lists of identifiers of length at most n, repetitions allowed
RECURSIVE IdLists(_)
IdLists(n) ==
    IF n = 0 THEN {<<>>}
    ELSE IdLists(n - 1) \cup {Append(l, a) : l \in IdLists(n - 1), a \in AllIds}

\* Every mapping over the identifiers, in every insertion order
LabelledDicts ==
    UNION {{[i \in 1..Len(keys) |-> [k |-> keys[i], v |-> lab[i]]] :
               lab \in [1..Len(keys) -> Labels]} : keys \in KeyLists}

-----------------------------------------------------------------------------
(* Persisted state: load_config *)

CloudFields == {"enabled", "auto_upload", "remote_name", "remote_path"}

default_cloud_backup ==
    [enabled |-> "True", auto_upload |-> "False", remote_name |-> "gdrive",
     remote_path |-> "gdrive:Upstalua"]

default_config ==
    [steam_path |-> "", cloud_backup |-> default_cloud_backup, appids |-> PyDict(<<>>)]

\* dict.update: the keys of other replace or extend those of d
update(d, other) ==
    [key \in DOMAIN d \cup DOMAIN other |-> IF key \in DOMAIN other THEN other[key] ELSE d[key]]

\* {appid: "Unknown" for appid in appids}: one key per distinct identifier, in
\* the order of first occurrence
RECURSIVE unknown_dict(_)
unknown_dict(appids) ==
    IF appids = <<>> THEN <<>>
    ELSE LET front == unknown_dict(SubSeq(appids, 1, Len(appids) - 1))
             appid == appids[Len(appids)]
         IN IF appid \in KeySet(front) THEN front
            ELSE Append(front, [k |-> appid, v |-> "Unknown"])

\* The legacy list kept as it is
migrate_appids_skipped(user_config) == user_config

\* if 'appids' in user_config and isinstance(user_config['appids'], list)
migrate_appids(user_config) ==
    IF "appids" \in DOMAIN user_config /\ user_config["appids"].type = "list"
    THEN [user_config EXCEPT !["appids"] = PyDict(unknown_dict(@.items))]
    ELSE user_config

\* The file is absent, is not JSON (json.load raises), or holds a JSON object
load_config(file) ==
    IF file.kind = "absent" THEN default_config
    ELSE IF file.kind = "corrupt" THEN default_config
    ELSE update(default_config, migrate_appids(file.doc))

NoFile == [kind |-> "absent", doc |-> <<>>]

CorruptFile == [kind |-> "corrupt", doc |-> <<>>]

\* The JSON objects a configuration file can hold: each field present or not
SteamPathFields == {<<>>, [steam_path |-> "C:/Steam"]}

AppidsFields ==
    {<<>>} \cup {[appids |-> PyList(l)] : l \in IdLists(MaxListed)}
           \cup {[appids |-> PyDict(d)] : d \in LabelledDicts}

CloudBackupFields ==
    {<<>>,
     [cloud_backup |-> [enabled |-> "False"]],
     [cloud_backup |-> [enabled |-> "True", auto_upload |-> "True",
                        remote_name |-> "drive", remote_path |-> "drive:Backup"]]}

Documents ==
    {update(update(a, b), c) : a \in SteamPathFields, b \in AppidsFields,
                               c \in CloudBackupFields}

ConfigFiles == {NoFile, CorruptFile} \cup {[kind |-> "json", doc |-> d] : d \in Documents}

NotLoaded == [called |-> FALSE, config |-> default_config]

LoadConfig ==
    /\ ~loaded.called
    /\ loaded' = [called |-> TRUE, config |-> load_config(config_file)]
    /\ UNCHANGED config_file
    /\ UNCHANGED notConfig

-----------------------------------------------------------------------------
(* IdentitySet: merge_appids *)

\* not x, for None, a list or a dict
falsy(x) == x.type = "NoneType" \/ x.items = <<>>

new_appids_found(existing, discovered) ==
    SelectSeq(discovered, LAMBDA appid : appid \notin KeySet(existing.items))

\* The mapping rebuilt from the discovered identifiers alone
merge_appids_discovered_only(existing, discovered) ==
    IF falsy(discovered) THEN (IF falsy(existing) THEN PyDict(<<>>) ELSE existing)
    ELSE PyDict(unknown_dict(discovered.items))

merge_appids(existing, discovered) ==
    LET existing_dict_ == IF falsy(existing) THEN PyDict(<<>>) ELSE existing
    IN existing_dict_

NotMerged == [called |-> FALSE, ret |-> PyNone, announced |-> <<>>]

MergeAppids ==
    /\ ~merged.called
    /\ merged' = [called |-> TRUE,
                  ret |-> merge_appids(existing_dict, new_appids),
                  announced |-> IF falsy(new_appids) THEN <<>>
                                ELSE new_appids_found(
                                         IF falsy(existing_dict) THEN PyDict(<<>>)
                                         ELSE existing_dict, new_appids.items)]
    /\ UNCHANGED <<existing_dict, new_appids>>
    /\ UNCHANGED notMerge

-----------------------------------------------------------------------------
(* PathCatalog: validate_steam_path *)

STEAM_ESSENTIALS == <<"steam.exe", "steamapps", "userdata", "config">>

\* The one Steam path of the model, and the empty string
SteamPath == "C:/Steam"

PathArgs == {"", SteamPath}

NoInstall == [exists |-> FALSE, entries |-> {}]

\* repr of a list of strings, as the f-string prints it: ['a', 'b']
RECURSIVE repr_items(_)
repr_items(list) ==
    IF list = <<>> THEN <<>>
    ELSE <<"'", Head(list), "'">>
         \o (IF Len(list) > 1 THEN <<", ">> ELSE <<>>)
         \o repr_items(Tail(list))

repr(list) == <<"[">> \o repr_items(list) \o <<"]">>

\* Only the first missing entry reported
validate_steam_path_first_missing(path, folder) ==
    IF path = "" \/ ~folder.exists
    THEN [ok |-> FALSE, reason |-> <<"Path does not exist">>]
    ELSE LET missing == SelectSeq(STEAM_ESSENTIALS, LAMBDA f : f \notin folder.entries)
         IN [ok |-> Len(missing) = 0,
             reason |-> IF Len(missing) = 0 THEN <<"Valid">>
                        ELSE <<"Missing: ">> \o repr(<<Head(missing)>>)]

\* folder is what the file system holds at path
validate_steam_path(path, folder) ==
    IF path = "" \/ ~folder.exists
    THEN [ok |-> FALSE, reason |-> <<"Path does not exist">>]
    ELSE LET missing == SelectSeq(STEAM_ESSENTIALS, LAMBDA f : f \notin folder.entries)
         IN [ok |-> Len(missing) = 0,
             reason |-> IF Len(missing) = 0 THEN <<"Valid">>
                        ELSE <<"Missing: ">> \o repr(missing)]

NotValidated ==
    [called |-> FALSE, path |-> "", folder |-> NoInstall,
     result |-> [ok |-> FALSE, reason |-> <<>>]]

ValidateSteamPath ==
    \E path \in PathArgs :
        /\ validated' = [called |-> TRUE, path |-> path, folder |-> install,
                         result |-> validate_steam_path(path, install)]
        /\ validated' # validated
        /\ UNCHANGED install
        /\ UNCHANGED notValidate

\* Steam is installed, removed or damaged
CreateInstallFolder ==
    /\ ~install.exists
    /\ install' = [exists |-> TRUE, entries |-> {}]
    /\ UNCHANGED validated
    /\ UNCHANGED notValidate

RemoveInstallFolder ==
    /\ install.exists
    /\ install' = NoInstall
    /\ UNCHANGED validated
    /\ UNCHANGED notValidate

AddInstallEntry ==
    \E i \in 1..Len(STEAM_ESSENTIALS) :
        /\ install.exists
        /\ STEAM_ESSENTIALS[i] \notin install.entries
        /\ install' = [install EXCEPT !.entries = @ \cup {STEAM_ESSENTIALS[i]}]
        /\ UNCHANGED validated
        /\ UNCHANGED notValidate

RemoveInstallEntry ==
    \E f \in install.entries :
        /\ install' = [install EXCEPT !.entries = @ \ {f}]
        /\ UNCHANGED validated
        /\ UNCHANGED notValidate

ValidateIdle ==
    /\ install = NoInstall
    /\ validated = NotValidated

-----------------------------------------------------------------------------
(* NameResolver: get_game_name, get_game_names, update_game_names *)

\* What the metadata service can answer to one request.  status is the fate
\* of the request; body is the kind of JSON value received; holds tells
\* whether an array or a string body contains str(appid); entry is the value
\* at data[str(appid)] of an object body, with its success and data members
\* and the name member of data.
Response(status, body, holds, entry, success, data, name) ==
    [status |-> status, body |-> body, holds |-> holds, entry |-> entry,
     success |-> success, data |-> data, name |-> name]

Responses ==
    {Response(st, "-", FALSE, "-", "-", "-", "-") :
        st \in {"network_error", "http_error", "not_json"}}
    \cup {Response("json", b, FALSE, "-", "-", "-", "-") : b \in {"null", "number"}}
    \cup {Response("json", b, h, "-", "-", "-", "-") :
            b \in {"array", "string"}, h \in BOOLEAN}
    \cup {Response("json", "object", FALSE, e, "-", "-", "-") :
            e \in {"absent", "null", "array"}}
    \cup {Response("json", "object", FALSE, "object", sc, "-", "-") :
            sc \in {"absent", "false"}}
    \cup {Response("json", "object", FALSE, "object", "true", d, "-") :
            d \in {"absent", "null"}}
    \cup {Response("json", "object", FALSE, "object", "true", "object", n) :
            n \in {"absent", "Game"}}

Returned(value) == [raised |-> "none", value |-> value]

Raised(exception) == [raised |-> exception, value |-> "-"]

\* requests.get and raise_for_status raise RequestException; response.json()
\* raises a JSON decode error, a ValueError (and a RequestException); KeyError
\* comes from a missing member; TypeError, from "in" on None or a number and
\* from a subscript on None, a list or a string, is not caught.
get_game_name(appid, r) ==
    IF r.status \in {"network_error", "http_error", "not_json"} THEN Returned("Unknown")
    ELSE IF r.body \in {"null", "number"} THEN Raised("TypeError")
    ELSE IF r.body \in {"array", "string"}
    THEN (IF r.holds THEN Raised("TypeError") ELSE Returned("Unknown"))
    ELSE IF r.entry = "absent" THEN Returned("Unknown")
    ELSE IF r.entry \in {"null", "array"} THEN Raised("TypeError")
    ELSE IF r.success = "absent" THEN Returned("Unknown")
    ELSE IF r.success = "false" THEN Returned("Unknown")
    ELSE IF r.data = "absent" THEN Returned("Unknown")
    ELSE IF r.data = "null" THEN Raised("TypeError")
    ELSE IF r.name = "absent" THEN Returned("Unknown")
    ELSE Returned(r.name)

\* d[key] = value on a dict: the value replaced, or the key appended
SetItem(d, key, value) ==
    IF key \in KeySet(d) THEN [d EXCEPT ![Get(d, key)].v = value]
    ELSE Append(d, [k |-> key, v |-> value])

\* The loop of get_game_names: one request per identifier, in order, until
\* one raises.  answers[i] is the response to the i-th request.
RECURSIVE get_game_names(_, _, _, _)
get_game_names(appids, answers, i, acc) ==
    IF i > Len(appids) THEN acc
    ELSE LET outcome == get_game_name(appids[i], answers[i])
             sent == Append(acc.sent, [appid |-> appids[i], outcome |-> outcome])
         IN IF outcome.raised # "none"
            THEN [acc EXCEPT !.sent = sent, !.raised = outcome.raised]
            ELSE get_game_names(appids, answers, i + 1,
                     [acc EXCEPT !.sent = sent,
                                 !.game_names = SetItem(@, appids[i], outcome.value)])

RECURSIVE update_all(_, _)
update_all(d, items) ==
    IF items = <<>> THEN d
    ELSE update_all(SetItem(d, Head(items).k, Head(items).v), Tail(items))

\* [appid for appid in new_appids if appid not in appids_dict]
appids_to_query(dict, appids) ==
    SelectSeq(appids, LAMBDA appid : appid \notin KeySet(dict))

update_game_names(dict, appids, answers) ==
    LET to_query == appids_to_query(dict, appids) IN
    IF appids = <<>> \/ to_query = <<>>
    THEN [raised |-> "none", ret |-> dict, sent |-> <<>>]
    ELSE LET got == get_game_names(to_query, answers, 1,
                        [game_names |-> <<>>, sent |-> <<>>, raised |-> "none"])
         IN IF got.raised # "none"
            THEN [raised |-> got.raised, ret |-> <<>>, sent |-> got.sent]
            ELSE [raised |-> "none", ret |-> update_all(dict, got.game_names),
                  sent |-> got.sent]

NoLookup ==
    [called |-> FALSE, appid |-> Id1,
     response |-> Response("network_error", "-", FALSE, "-", "-", "-", "-"),
     outcome |-> Returned("-")]

NotNamed == [called |-> FALSE, raised |-> "none", ret |-> <<>>, sent |-> <<>>]

GetGameName ==
    \E appid \in AllIds : \E r \in Responses :
        /\ ~lookup.called
        /\ ~named.called
        /\ lookup' = [called |-> TRUE, appid |-> appid, response |-> r,
                      outcome |-> get_game_name(appid, r)]
        /\ UNCHANGED <<known_names, detected, named>>
        /\ UNCHANGED notNames

UpdateGameNames ==
    \E answers \in [1..Len(appids_to_query(known_names, detected)) -> Responses] :
        /\ ~lookup.called
        /\ ~named.called
        /\ named' = [called |-> TRUE] @@ update_game_names(known_names, detected, answers)
        /\ UNCHANGED <<known_names, detected, lookup>>
        /\ UNCHANGED notNames

NamesIdle ==
    /\ known_names = <<>>
    /\ detected = <<>>
    /\ lookup = NoLookup
    /\ named = NotNamed

-----------------------------------------------------------------------------
(* Installation locator: detect_steam, get_steam_from_user, setup_steam_path *)

REGISTRY_PATHS ==
    <<"HKCU/Software/Valve/Steam/SteamPath",
      "HKLM/SOFTWARE/WOW6432Node/Valve/Steam/InstallPath",
      "HKLM/SOFTWARE/Valve/Steam/InstallPath">>

\* The path each registry value can hold, besides the empty string
RegistryPath == <<"D:/Steam1", "D:/Steam2", "D:/Steam3">>

AllPaths == {SteamPath} \cup {RegistryPath[i] : i \in 1..Len(RegistryPath)}

\* A folder: not there, there without steamapps, or a whole installation
BrokenInstall ==
    [exists |-> TRUE, entries |-> {"steam.exe", "userdata", "config"}]

WholeInstall ==
    [exists |-> TRUE, entries |-> {"steam.exe", "steamapps", "userdata", "config"}]

FolderStates == {NoInstall, BrokenInstall, WholeInstall}

\* winreg.OpenKey raises FileNotFoundError, PermissionError or another
\* exception, or QueryValueEx gives the value
RegistryAnswers(i) ==
    {[result |-> r, path |-> ""] : r \in {"FileNotFoundError", "PermissionError", "Exception"}}
    \cup {[result |-> "value", path |-> p] : p \in {"", RegistryPath[i]}}

\* os.path.expandvars and the replacement of "/" by "\": the paths of the
\* model hold no environment variable, and both spellings name one folder
normalise(path) == path

\* for hive, subkey, value_name in REGISTRY_PATHS; path "" stands for None
RECURSIVE detect_steam(_, _, _, _)
detect_steam(answers, folders, i, tried) ==
    IF i > Len(REGISTRY_PATHS) THEN [path |-> "", tried |-> tried]
    ELSE IF answers[i].result # "value"
    THEN detect_steam(answers, folders, i + 1, Append(tried, i))
    ELSE IF answers[i].path # "" /\ folders[answers[i].path].exists
    THEN [path |-> normalise(answers[i].path), tried |-> Append(tried, i)]
    ELSE detect_steam(answers, folders, i + 1, Append(tried, i))

FolderAt(folders, path) == IF path \in DOMAIN folders THEN folders[path] ELSE NoInstall

\* The user is asked until a valid path is typed: typed is the path typed
\* now, and an invalid one leaves the user at the prompt
get_steam_from_user(folders, typed) ==
    IF validate_steam_path(typed, FolderAt(folders, typed)).ok
    THEN [returned |-> TRUE, path |-> typed]
    ELSE [returned |-> FALSE, path |-> ""]

setup_steam_path(file, answers, folders, typed) ==
    LET config == load_config(file)
        existing_path == config["steam_path"]
        detected_ == detect_steam(answers, folders, 1, <<>>)
        asked == get_steam_from_user(folders, typed)
    IN IF existing_path # "" /\ validate_steam_path(existing_path,
                                    FolderAt(folders, existing_path)).ok
       THEN [source |-> "config", returned |-> TRUE, path |-> existing_path,
             tried |-> <<>>, prompted |-> FALSE]
       ELSE IF detected_.path # "" /\ validate_steam_path(detected_.path,
                                          FolderAt(folders, detected_.path)).ok
       THEN [source |-> "registry", returned |-> TRUE, path |-> detected_.path,
             tried |-> detected_.tried, prompted |-> FALSE]
       ELSE [source |-> "prompt", returned |-> asked.returned, path |-> asked.path,
             tried |-> detected_.tried, prompted |-> TRUE]

NotLocated ==
    [called |-> FALSE, source |-> "none", returned |-> FALSE, path |-> "",
     tried |-> <<>>, prompted |-> FALSE]

SetupSteamPath ==
    \E typed \in AllPaths :
        /\ ~located.called
        /\ located' = [called |-> TRUE]
                          @@ setup_steam_path(config_file, registry, disk, typed)
        /\ UNCHANGED <<registry, disk, config_file>>
        /\ UNCHANGED notLocate

LocateIdle ==
    /\ registry = [i \in 1..Len(REGISTRY_PATHS) |->
                      [result |-> "FileNotFoundError", path |-> ""]]
    /\ disk = [p \in AllPaths |-> NoInstall]
    /\ located = NotLocated

-----------------------------------------------------------------------------
(* run_backup: the plug-in sync, the statistics sync, the summary *)

NotRun ==
    [pc |-> "idle", plugins_ok |-> "none", stats_ok |-> "none",
     summary |-> <<>>]

\* The statistics sync skipped when the plug-in sync failed
after_plugins_abort(plugins_ok) ==
    IF plugins_ok = "True" THEN "stats" ELSE "summary"

\* The statement that follows plugins_ok = backup_game_files(.., 'plugins')
after_plugins(plugins_ok) == "stats"

\* run_backup is entered with the identity set main has merged
RunBackup ==
    /\ run.pc = "idle"
    /\ run' = [run EXCEPT !.pc = "plugins"]
    /\ UNCHANGED syncVars
    /\ UNCHANGED notRun

\* plugins_ok = backup_game_files(steam_path, appids_dict, 'plugins')
RunPlugins ==
    /\ run.pc = "plugins"
    /\ backup_game_files("plugins")
    /\ run' = [run EXCEPT !.pc = after_plugins(ret'), !.plugins_ok = ret']
    /\ UNCHANGED notRun

\* stats_ok = backup_game_files(steam_path, appids_dict, 'stats')
RunStats ==
    /\ run.pc = "stats"
    /\ backup_game_files("stats")
    /\ run' = [run EXCEPT !.pc = "summary", !.stats_ok = ret']
    /\ UNCHANGED notRun

\* The two result lines of _print_summary
_print_summary(plugins_ok, stats_ok) ==
    <<IF plugins_ok = "True" THEN "Success" ELSE "Failed",
      IF stats_ok = "True" THEN "Success" ELSE "Failed">>

PrintSummary ==
    /\ run.pc = "summary"
    /\ run' = [run EXCEPT !.pc = "done",
                          !.summary = _print_summary(run.plugins_ok, run.stats_ok)]
    /\ UNCHANGED syncVars
    /\ UNCHANGED notRun

RunIdle == run = NotRun

-----------------------------------------------------------------------------
(* main, prompt_cloud_backup and the steps of auto_cloud_backup *)

\* str.lower on the answers the user can type, already stripped
lower(answer) ==
    IF answer = "Y" THEN "y" ELSE IF answer = "YES" THEN "yes" ELSE answer

Answers == {"", "Y", "y", "YES", "yes", "n"}

\* "KeyError" stands for the exception config['cloud_backup'][..] raises
prompt_cloud_backup(file, answer) ==
    LET cloud == load_config(file)["cloud_backup"] IN
    IF "enabled" \notin DOMAIN cloud THEN "KeyError"
    ELSE IF cloud["enabled"] # "True" THEN "False"
    ELSE IF "auto_upload" \notin DOMAIN cloud THEN "KeyError"
    ELSE IF cloud["auto_upload"] = "True" THEN "True"
    ELSE IF lower(answer) \in {"", "y", "yes"} THEN "True"
    ELSE "False"

\* How rclone config create ends: exit status 0, another status, no answer
\* within the timeout, or Popen raises
CreateOutcomes == {"0", "nonzero", "TimeoutExpired", "Exception"}

setup_google_drive_remote(installed, remote_exists, create) ==
    IF ~installed THEN "False"
    ELSE IF remote_exists THEN "True"
    ELSE IF create = "0" THEN "True"
    ELSE "False"

\* How rclone mkdir ends: exit status 0; another status with "already
\* exists" or "directory not found" on stderr; another status with any other
\* message; no answer within the timeout; subprocess.run raises
MkdirOutcomes ==
    {"0", "already exists", "directory not found", "other error",
     "TimeoutExpired", "Exception"}

create_gdrive_folder(mkdir) ==
    IF mkdir = "0" THEN "True"
    ELSE IF mkdir \in {"already exists", "directory not found"} THEN "True"
    ELSE IF mkdir = "other error" THEN "True"
    ELSE "False"

\* How rclone sync ends
SyncOutcomes == {"0", "nonzero", "Exception"}

backup_to_cloud(sync) == IF sync = "0" THEN "True" ELSE "False"

\* The configuration files main can start from: none, one that is not
\* JSON, and JSON objects with a cloud_backup object, whole or in part
MainFiles ==
    {NoFile, CorruptFile}
    \cup {[kind |-> "json", doc |-> [cloud_backup |-> [enabled |-> "False"]]]}
    \cup {[kind |-> "json",
           doc |-> [cloud_backup |->
                       [enabled |-> e, auto_upload |-> a,
                        remote_name |-> "gdrive", remote_path |-> "gdrive:Upstalua"]]] :
             e, a \in {"True", "False"}}

NotStarted ==
    [pc |-> "load", cloud_enabled |-> "none", auto_upload |-> "none",
     detected |-> "none", synced |-> FALSE, confirmed |-> "none",
     folder |-> "none", remote |-> "none", mkdir |-> "none",
     created |-> "none", upload |-> "none",
     cancelled |-> FALSE, error |-> FALSE, interrupted |-> FALSE,
     swallowed |-> FALSE, prompted |-> FALSE, exit |-> "none"]

\* The steps inside the try block of main
TrySteps ==
    {"setup", "validate", "scan", "names", "save", "backup", "confirm",
     "cloud_folder", "cloud_remote", "cloud_mkdir", "cloud_upload"}

Step(m) ==
    /\ main' = m
    /\ UNCHANGED notMain

\* except Exception: the message, then the statement after the try block
Caught == Step([main EXCEPT !.pc = "final", !.error = TRUE])

\* return inside the try block: main ends without the final prompt
Return == Step([main EXCEPT !.pc = "exited", !.exit = "returned"])

\* Lines 886-892, before the try block
MainLoad ==
    /\ main.pc = "load"
    /\ LET cloud == load_config(config_file)["cloud_backup"] IN
       IF {"enabled", "auto_upload"} \subseteq DOMAIN cloud
       THEN Step([main EXCEPT !.pc = "setup",
                              !.cloud_enabled = cloud["enabled"],
                              !.auto_upload = cloud["auto_upload"]])
       ELSE Step([main EXCEPT !.pc = "exited", !.exit = "KeyError"])

\* setup_steam_path returns a path, or input raises at the prompt
MainSetup ==
    /\ main.pc = "setup"
    /\ \/ Step([main EXCEPT !.pc = "validate"])
       \/ Caught

\* validate_steam_path on the path returned
MainValidate ==
    /\ main.pc = "validate"
    /\ \/ Step([main EXCEPT !.pc = "scan"])
       \/ Return

\* get_appids_from_plugins and merge_appids
MainScan ==
    \E detected_appids \in {"empty", "some"} :
        /\ main.pc = "scan"
        /\ Step([main EXCEPT !.detected = detected_appids,
                             !.pc = IF detected_appids = "some" THEN "names" ELSE "save"])

\* update_game_names returns or raises
MainNames ==
    /\ main.pc = "names"
    /\ \/ Step([main EXCEPT !.pc = "save"])
       \/ Caught

\* should_update_config and save_config
MainSave ==
    \E config_updated \in BOOLEAN : \E saved \in BOOLEAN :
        /\ main.pc = "save"
        /\ IF config_updated /\ ~saved
           THEN Return
           ELSE Step([main EXCEPT !.pc = "backup"])

\* run_backup returns, or a copy or a directory creation raises
MainBackup ==
    /\ main.pc = "backup"
    /\ \/ Step([main EXCEPT !.synced = TRUE,
                            !.pc = IF main.cloud_enabled = "True"
                                   THEN "confirm" ELSE "final"])
       \/ Caught

\* if prompt_cloud_backup():
MainConfirm ==
    \E answer \in Answers :
        LET confirmed == prompt_cloud_backup(config_file, answer) IN
        /\ main.pc = "confirm"
        /\ IF confirmed = "KeyError"
           THEN Caught
           ELSE Step([main EXCEPT !.confirmed = confirmed,
                                  !.pc = IF confirmed = "True"
                                         THEN "cloud_folder" ELSE "final"])

\* auto_cloud_backup: if not os.path.exists(BACKUP_FOLDER)
CloudFolder ==
    \E there \in BOOLEAN :
        /\ main.pc = "cloud_folder"
        /\ Step([main EXCEPT !.folder = IF there THEN "True" ELSE "False",
                             !.pc = IF there THEN "cloud_remote" ELSE "final"])

\* auto_cloud_backup: if not setup_google_drive_remote()
CloudRemote ==
    \E installed, remote_exists \in BOOLEAN : \E create \in CreateOutcomes :
        LET remote == setup_google_drive_remote(installed, remote_exists, create) IN
        /\ main.pc = "cloud_remote"
        /\ Step([main EXCEPT !.remote = remote,
                             !.pc = IF remote = "True" THEN "cloud_mkdir" ELSE "final"])

\* auto_cloud_backup: if not create_gdrive_folder()
CloudMkdir ==
    \E mkdir \in MkdirOutcomes :
        LET created == create_gdrive_folder(mkdir) IN
        /\ main.pc = "cloud_mkdir"
        /\ Step([main EXCEPT !.mkdir = mkdir, !.created = created,
                             !.pc = IF created = "True" THEN "cloud_upload" ELSE "final"])

\* auto_cloud_backup: success = backup_to_cloud(), then the verification
CloudUpload ==
    \E sync \in SyncOutcomes :
        /\ main.pc = "cloud_upload"
        /\ Step([main EXCEPT !.upload = backup_to_cloud(sync), !.pc = "final"])

\* input('\nPress Enter to exit...'), after the try block
MainFinal ==
    /\ main.pc = "final"
    /\ Step([main EXCEPT !.pc = "exited", !.prompted = TRUE, !.exit = "returned"])

\* The user presses Ctrl-C during the step main is at. Before the try block
\* and at the final prompt nothing catches it; inside the try block line 944
\* does, unless it arrives inside verify_rclone or check_remote_exists, whose
\* bare except takes it for a failure of rclone.
Interrupt ==
    /\ ~main.interrupted
    /\ main.pc # "exited"
    /\ IF main.pc \in {"load", "final"}
       THEN Step([main EXCEPT !.interrupted = TRUE, !.pc = "exited",
                              !.prompted = (main.pc = "final"),
                              !.exit = "KeyboardInterrupt"])
       ELSE \/ /\ main.pc \in TrySteps
               /\ Step([main EXCEPT !.interrupted = TRUE, !.cancelled = TRUE,
                                    !.pc = "final"])
            \/ /\ main.pc = "cloud_remote"
               /\ Step([main EXCEPT !.interrupted = TRUE, !.swallowed = TRUE])

MainIdle == main = NotStarted

-----------------------------------------------------------------------------
(* Specifications *)

SyncInit ==
    /\ src = [plugins |-> NoFolder("plugins"), stats |-> NoFolder("stats")]
    /\ dst = [dirs |-> {}, plugins |-> EmptyTree("plugins"), stats |-> EmptyTree("stats")]
    /\ appids_dict = <<>>
    /\ saved_files = <<>>
    /\ skipped_files = <<>>
    /\ missing_files = <<>>
    /\ ret = "none"
    /\ reported = FALSE
    /\ last = NoCall

MergeIdle ==
    /\ existing_dict = PyDict(<<>>)
    /\ new_appids = PyList(<<>>)
    /\ merged = NotMerged

ConfigIdle ==
    /\ config_file = NoFile
    /\ loaded = NotLoaded

\* The parts added to the three parts above, at rest
RestIdle ==
    /\ ValidateIdle
    /\ NamesIdle
    /\ LocateIdle
    /\ RunIdle
    /\ MainIdle

\* The synchronisation, from an installation that was never backed up
Init ==
    /\ SyncInit
    /\ MergeIdle
    /\ ConfigIdle
    /\ RestIdle

Next ==
    \/ BackupPlugins
    \/ BackupStats
    \/ ShouldBackupFile
    \/ CreateSourceFolder
    \/ WriteSourceFile
    \/ DeleteSourceEntry
    \/ MakeSourceDir
    \/ SetIdentitySet

Spec == Init /\ [][Next]_vars

\* merge_appids on every existing mapping and every list of discoveries
MergeInit ==
    /\ SyncInit
    /\ ConfigIdle
    /\ RestIdle
    /\ existing_dict \in {PyNone} \cup {PyDict(d) : d \in LabelledDicts}
    /\ new_appids \in {PyList(l) : l \in IdLists(MaxDiscovered)}
    /\ merged = NotMerged

MergeNext == MergeAppids

SpecMerge == MergeInit /\ [][MergeNext]_vars

\* load_config on every configuration file
ConfigInit ==
    /\ SyncInit
    /\ MergeIdle
    /\ RestIdle
    /\ config_file \in ConfigFiles
    /\ loaded = NotLoaded

ConfigNext == LoadConfig

SpecConfig == ConfigInit /\ [][ConfigNext]_vars

\* validate_steam_path while the installation changes
ValidateInit ==
    /\ SyncInit
    /\ MergeIdle
    /\ ConfigIdle
    /\ ValidateIdle
    /\ NamesIdle
    /\ LocateIdle
    /\ RunIdle
    /\ MainIdle

ValidateNext ==
    \/ ValidateSteamPath
    \/ CreateInstallFolder
    \/ RemoveInstallFolder
    \/ AddInstallEntry
    \/ RemoveInstallEntry

SpecValidate == ValidateInit /\ [][ValidateNext]_vars

\* The metadata lookups, on every mapping and every list of discoveries
NamesInit ==
    /\ SyncInit
    /\ MergeIdle
    /\ ConfigIdle
    /\ ValidateIdle
    /\ LocateIdle
    /\ RunIdle
    /\ MainIdle
    /\ known_names \in LabelledDicts
    /\ detected \in IdLists(MaxDiscovered)
    /\ lookup = NoLookup
    /\ named = NotNamed

NamesNext ==
    \/ GetGameName
    \/ UpdateGameNames

SpecNames == NamesInit /\ [][NamesNext]_vars

\* setup_steam_path on every registry, with or without a configured path
LocateInit ==
    /\ SyncInit
    /\ MergeIdle
    /\ ValidateIdle
    /\ NamesIdle
    /\ RunIdle
    /\ MainIdle
    /\ loaded = NotLoaded
    /\ config_file \in {NoFile, [kind |-> "json", doc |-> [steam_path |-> SteamPath]]}
    /\ registry \in {r \in [1..Len(REGISTRY_PATHS) ->
                               UNION {RegistryAnswers(i) : i \in 1..Len(REGISTRY_PATHS)}] :
                        \A i \in 1..Len(REGISTRY_PATHS) : r[i] \in RegistryAnswers(i)}
    /\ disk \in [AllPaths -> FolderStates]
    /\ disk[SteamPath].exists => config_file # NoFile
    /\ \A i \in 1..Len(REGISTRY_PATHS) :
           disk[RegistryPath[i]].exists => registry[i].path = RegistryPath[i]
    /\ located = NotLocated

LocateNext == SetupSteamPath

SpecLocate == LocateInit /\ [][LocateNext]_vars

\* One file content is enough for a folder that is there or not
SourceFolders(backup_type) ==
    {NoFolder(backup_type)}
    \cup {[exists |-> TRUE, files |-> f] :
             f \in [NamesOf(backup_type) -> {Absent, File(1)}]}

\* run_backup on every pair of source folders and every identity set
RunInit ==
    /\ src \in [plugins : SourceFolders("plugins"), stats : SourceFolders("stats")]
    /\ dst = [dirs |-> {}, plugins |-> EmptyTree("plugins"), stats |-> EmptyTree("stats")]
    /\ appids_dict \in IdentitySets
    /\ saved_files = <<>>
    /\ skipped_files = <<>>
    /\ missing_files = <<>>
    /\ ret = "none"
    /\ reported = FALSE
    /\ last = NoCall
    /\ MergeIdle
    /\ ConfigIdle
    /\ ValidateIdle
    /\ NamesIdle
    /\ LocateIdle
    /\ RunIdle
    /\ MainIdle

RunNext ==
    \/ RunBackup
    \/ RunPlugins
    \/ RunStats
    \/ PrintSummary

SpecRun == RunInit /\ [][RunNext]_vars

\* One run of main from every configuration file
MainInit ==
    /\ SyncInit
    /\ MergeIdle
    /\ loaded = NotLoaded
    /\ config_file \in MainFiles
    /\ ValidateIdle
    /\ NamesIdle
    /\ LocateIdle
    /\ RunIdle
    /\ MainIdle

MainNext ==
    \/ MainLoad
    \/ MainSetup
    \/ MainValidate
    \/ MainScan
    \/ MainNames
    \/ MainSave
    \/ MainBackup
    \/ MainConfirm
    \/ CloudFolder
    \/ CloudRemote
    \/ CloudMkdir
    \/ CloudUpload
    \/ MainFinal
    \/ Interrupt

SpecMain == MainInit /\ [][MainNext]_vars

-----------------------------------------------------------------------------
(* Properties of the synchronisation *)

Range(seq) == {seq[i] : i \in 1..Len(seq)}

Synced(backup_type) == last.op = "backup_game_files" /\ last.backup_type = backup_type

SourceAt(backup_type, filename) == last.src[backup_type].files[filename]

DestBefore(backup_type, filename) == last.dst[backup_type][filename]

ByteIdentical(a, b) == a.kind = "file" /\ b.kind = "file" /\ a.data = b.data

Processed == Range(saved_files) \cup Range(skipped_files)

\* The file an identifier owns in a category: <id>.lua, s_<id>.bin
OwnFile(id, backup_type) ==
    IF backup_type = "plugins" THEN id \o file_extension("plugins")
    ELSE StatsPrefix \o id \o file_extension("stats")

\* C1: should_backup_file(source, dest) answers (True, "new") when dest does
\* not exist, (False, "unchanged") when dest exists and has the bytes of
\* source, (True, "modified") when dest exists and differs; the call changes
\* neither the source folder nor the backup tree.
C1_Classification ==
    last.op = "should_backup_file" =>
        /\ src = last.src
        /\ dst = last.dst
        /\ \A r \in Range(saved_files) :
             LET s == SourceAt(last.backup_type, r.filename)
                 d == DestBefore(last.backup_type, r.filename)
             IN /\ d.kind = "absent" => ret = "True" /\ r.reason = "new"
                /\ (d.kind # "absent" /\ ByteIdentical(s, d)) =>
                       ret = "False" /\ r.reason = "unchanged"
                /\ (d.kind # "absent" /\ ~ByteIdentical(s, d)) =>
                       ret = "True" /\ r.reason = "modified"

C1_Witness ==
    /\ last.op = "should_backup_file"
    /\ \E r \in Range(saved_files) :
         /\ r.reason = "modified"
         /\ DestBefore(last.backup_type, r.filename).kind = "file"
         /\ DestBefore(last.backup_type, r.filename) # SourceAt(last.backup_type, r.filename)

\* C2: a plug-in sync that repeats the previous plug-in sync, with the source
\* folder and the identity set unchanged in between, saves nothing (no new
\* and no modified record) and leaves the whole backup tree as it was.
C2_Idempotent ==
    (Synced("plugins") /\ last.repeat) =>
        /\ saved_files = <<>>
        /\ dst = last.dst

C2_Witness ==
    /\ Synced("plugins")
    /\ last.repeat
    /\ last.prior # <<>>
    /\ skipped_files # <<>>
    /\ saved_files = <<>>

\* C3: in both categories every file a sync copies belongs to an identifier
\* of the identity set: no file of an untracked identifier is created or
\* overwritten in the backup tree.
C3_OnlyTracked ==
    \A backup_type \in Categories :
        Synced(backup_type) =>
            \A U \in AllIds \ KeySet(appids_dict) :
                /\ \A r \in Range(saved_files) : r.filename # OwnFile(U, backup_type)
                /\ dst[backup_type][OwnFile(U, backup_type)]
                       = DestBefore(backup_type, OwnFile(U, backup_type))

\* C4: a plug-in sync with an existing source folder and a non-empty identity
\* set returns False only when nothing was saved or skipped, every requested
\* <id>.lua missing; it returns True when at least one requested file exists;
\* each identifier with a source file has a saved or skipped record and each
\* identifier without one has a missing record.
C4_PluginSuccess ==
    (Synced("plugins") /\ last.src["plugins"].exists /\ appids_dict # <<>>) =>
        LET has(id) == SourceAt("plugins", OwnFile(id, "plugins")).kind = "file"
            rec(set, id) == \E r \in set :
                               r.appid = id /\ r.filename = OwnFile(id, "plugins")
        IN /\ ret \in {"True", "False"}
           /\ ret = "False" =>
                  /\ saved_files = <<>>
                  /\ skipped_files = <<>>
                  /\ \A id \in KeySet(appids_dict) : ~has(id)
           /\ (\E id \in KeySet(appids_dict) : has(id)) => ret = "True"
           /\ \A id \in KeySet(appids_dict) :
                  /\ has(id) <=> rec(Processed, id)
                  /\ ~has(id) <=> rec(Range(missing_files), id)

\* Identifiers 1 and 10 with only 1.lua in the source: 1.lua new, 10.lua missing
C4_Witness ==
    /\ Synced("plugins")
    /\ KeySet(appids_dict) = {Id1, Id10}
    /\ ret = "True"
    /\ \E r \in Range(saved_files) : r.appid = Id1 /\ r.reason = "new"
    /\ \E r \in Range(missing_files) : r.appid = Id10

\* C5: a statistics sync returns True whenever the statistics source folder
\* exists, whatever the identity set and the files of the folder.
C5_StatsSuccess ==
    (Synced("stats") /\ last.src["stats"].exists) => ret = "True"

C5_Witness ==
    /\ Synced("stats")
    /\ last.src["stats"].exists
    /\ appids_dict # <<>>
    /\ saved_files = <<>>
    /\ skipped_files = <<>>
    /\ ret = "True"

\* C6: a statistics sync gives, for each identifier of the identity set, a
\* saved or skipped record to every regular file of the source folder whose
\* name matches *<id>*, and the backup then holds the bytes of that file;
\* only such files get records; an identifier without a matching regular
\* file gets no record, never a missing one, and the sync still succeeds.
C6_StatsRecords ==
    (Synced("stats") /\ last.src["stats"].exists /\ appids_dict # <<>>) =>
        LET hit(id, n) == SourceAt("stats", n).kind = "file" /\ glob_match(id, n) IN
        /\ \A id \in KeySet(appids_dict) : \A n \in StatsNames :
               hit(id, n) =>
                   /\ \E r \in Processed : r.appid = id /\ r.filename = n
                   /\ dst["stats"][n] = SourceAt("stats", n)
        /\ \A r \in Processed : r.appid \in KeySet(appids_dict) /\ hit(r.appid, r.filename)
        /\ \A r \in Range(saved_files) :
               /\ r.reason \in {"new", "modified"}
               /\ r.reason = "new" => DestBefore("stats", r.filename).kind = "absent"
        /\ \A n \in StatsNames :
               (\A r \in Range(saved_files) : r.filename # n) =>
                   dst["stats"][n] = DestBefore("stats", n)
        /\ missing_files = <<>>
        /\ ret = "True"

\* Identifier 1 matches a regular file, identifier 10 only a directory
C6_Witness ==
    /\ Synced("stats")
    /\ KeySet(appids_dict) = {Id1, Id10}
    /\ SourceAt("stats", OwnFile(Id10, "stats")).kind = "dir"
    /\ \E r \in Range(saved_files) : r.appid = Id1 /\ r.reason = "new"
    /\ \A r \in Processed : r.appid # Id10
    /\ ret = "True"

\* C7: a sync whose source folder does not exist returns False before any
\* work: no backup folder is created, no file copied, no record produced and
\* nothing reported, in either category and for any identity set.
C7_NoSourceFolder ==
    \A backup_type \in Categories :
        (Synced(backup_type) /\ ~last.src[backup_type].exists) =>
            /\ ret = "False"
            /\ dst = last.dst
            /\ saved_files = <<>>
            /\ skipped_files = <<>>
            /\ missing_files = <<>>
            /\ ~reported

C7_Witness ==
    /\ Synced("stats")
    /\ ~last.src["stats"].exists
    /\ appids_dict # <<>>
    /\ backup_path("stats") \notin dst.dirs
    /\ ret = "False"

\* C8 as stated: a sync with an empty identity set returns True and leaves
\* the backup tree as it was, in either category.
C8_EmptySetSucceeds ==
    \A backup_type \in Categories :
        (Synced(backup_type) /\ appids_dict = <<>>) =>
            /\ ret = "True"
            /\ dst = last.dst

\* C8 amended: a sync with an empty identity set leaves the backup tree as
\* it was and produces no record; it returns True when the category's source
\* folder exists and False when it does not.
C8_EmptySetNoOp ==
    \A backup_type \in Categories :
        (Synced(backup_type) /\ appids_dict = <<>>) =>
            /\ ret = (IF last.src[backup_type].exists THEN "True" ELSE "False")
            /\ dst = last.dst
            /\ saved_files = <<>>
            /\ skipped_files = <<>>
            /\ missing_files = <<>>

C8_Witness ==
    /\ Synced("plugins")
    /\ appids_dict = <<>>
    /\ last.src["plugins"].exists
    /\ \E n \in PluginNames : SourceAt("plugins", n).kind = "file"
    /\ backup_path("plugins") \notin dst.dirs
    /\ ret = "True"

-----------------------------------------------------------------------------
(* Properties of the identity set and of the persisted state *)

\* C9: merge_appids(E, D) returns a mapping that has every key of E with the
\* label it has in E, and the call touches neither the configuration file nor
\* the source and backup trees.
C9_MergeKeeps ==
    /\ [](merged.called =>
            /\ merged.ret.type = "dict"
            /\ \A key \in KeySet(existing_dict.items) :
                   /\ key \in KeySet(merged.ret.items)
                   /\ Value(merged.ret.items, key) = Value(existing_dict.items, key))
    /\ [][merged' # merged => UNCHANGED <<config_file, src, dst>>]_vars

C9_Witness ==
    /\ merged.called
    /\ existing_dict.type = "dict"
    /\ \E key \in KeySet(existing_dict.items) : Value(existing_dict.items, key) = "Game"
    /\ merged.announced # <<>>
    /\ merged.ret = existing_dict

LegacyLoad ==
    /\ loaded.called
    /\ config_file.kind = "json"
    /\ "appids" \in DOMAIN config_file.doc
    /\ config_file.doc["appids"].type = "list"

\* C10 as stated: loading a configuration whose appids is a list of N
\* identifiers gives an appids mapping of size N, whose keys are the listed
\* identifiers and whose values are all "Unknown".
C10_LegacySizeN ==
    LegacyLoad =>
        LET listed == config_file.doc["appids"].items
            appids == loaded.config["appids"]
        IN /\ appids.type = "dict"
           /\ Len(appids.items) = Len(listed)
           /\ KeySet(appids.items) = Range(listed)
           /\ \A i \in 1..Len(appids.items) : appids.items[i].v = "Unknown"

\* C10 amended: the mapping has one key per distinct listed identifier, so
\* its size is N only when no identifier is listed twice.
C10_LegacyDistinct ==
    LegacyLoad =>
        LET listed == config_file.doc["appids"].items
            appids == loaded.config["appids"]
        IN /\ appids.type = "dict"
           /\ Len(appids.items) = Cardinality(Range(listed))
           /\ \A i, j \in 1..Len(appids.items) :
                  i # j => appids.items[i].k # appids.items[j].k
           /\ KeySet(appids.items) = Range(listed)
           /\ \A i \in 1..Len(appids.items) : appids.items[i].v = "Unknown"

C10_Witness ==
    /\ LegacyLoad
    /\ Len(config_file.doc["appids"].items) = 2
    /\ Len(loaded.config["appids"].items) = 2
    /\ loaded.config["steam_path"] = "C:/Steam"

\* C11: load_config returns the persisted document merged over the default:
\* the result has steam_path, appids and cloud_backup, cloud_backup has all
\* four of enabled, auto_upload, remote_name and remote_path, and each value
\* is the document's when the document has it and the default's otherwise.
C11_Backfilled ==
    (loaded.called /\ config_file.kind = "json") =>
        LET doc == migrate_appids(config_file.doc)
            config == loaded.config
        IN /\ DOMAIN config = {"steam_path", "appids", "cloud_backup"}
           /\ \A key \in {"steam_path", "appids"} :
                  config[key] = IF key \in DOMAIN doc THEN doc[key] ELSE default_config[key]
           /\ \A field \in CloudFields :
                  /\ field \in DOMAIN config["cloud_backup"]
                  /\ config["cloud_backup"][field] =
                         IF /\ "cloud_backup" \in DOMAIN doc
                            /\ field \in DOMAIN doc["cloud_backup"]
                         THEN doc["cloud_backup"][field]
                         ELSE default_cloud_backup[field]

-----------------------------------------------------------------------------
(* Further properties of the synchronisation *)

\* C18: after a plug-in sync that returns True, every identifier of the
\* identity set whose <id>.lua exists in the source folder has
\* backup/config/stplug-in/<id>.lua with the bytes of the source file; the
\* sync changes no source file and removes no file of the backup tree.
C18_PluginBackupCurrent ==
    Synced("plugins") =>
        /\ ret = "True" =>
               \A id \in KeySet(appids_dict) :
                   LET filename == OwnFile(id, "plugins") IN
                   exists(SourceAt("plugins", filename)) =>
                       /\ backup_path("plugins") \in dst.dirs
                       /\ ByteIdentical(SourceAt("plugins", filename), dst["plugins"][filename])
        /\ src = last.src
        /\ \A backup_type \in Categories : \A filename \in NamesOf(backup_type) :
               exists(DestBefore(backup_type, filename)) => exists(dst[backup_type][filename])
        /\ last.dst.dirs \subseteq dst.dirs

\* A stale backup file is overwritten with the new bytes of its source
C18_Witness ==
    /\ Synced("plugins")
    /\ ret = "True"
    /\ \E r \in Range(saved_files) :
         /\ r.reason = "modified"
         /\ DestBefore("plugins", r.filename).kind = "file"
         /\ dst["plugins"][r.filename] = SourceAt("plugins", r.filename)
    /\ skipped_files # <<>>

-----------------------------------------------------------------------------
(* Properties of the path validation *)

Essentials == Range(STEAM_ESSENTIALS)

\* The required entries the validated folder lacks
MissingOf(folder) == Essentials \ folder.entries

\* The entry names a reason lists between its quotes
ListedIn(reason) == {reason[i] : i \in {j \in 2..(Len(reason) - 1) : reason[j - 1] = "'"}}
                        \cap Essentials

PathIsValid ==
    /\ validated.path # ""
    /\ validated.folder.exists
    /\ Essentials \subseteq validated.folder.entries

\* C12 as stated: ok is True exactly when the path exists and holds every
\* required entry; the reason is "Valid" when ok and otherwise lists exactly
\* the missing required entries.
C12_ReasonListsMissing ==
    validated.called =>
        LET reason == validated.result.reason IN
        /\ validated.result.ok <=> PathIsValid
        /\ validated.result.ok => reason = <<"Valid">>
        /\ ~validated.result.ok =>
               /\ reason[1] = "Missing: "
               /\ ListedIn(reason) = MissingOf(validated.folder)

\* C12 amended: as above when the path exists; an empty or non-existent path
\* gives the reason "Path does not exist" and lists nothing.  The missing
\* entries appear once each, in the order of the required list.
C12_ReasonByCase ==
    validated.called =>
        LET reason == validated.result.reason
            missing == SelectSeq(STEAM_ESSENTIALS,
                                 LAMBDA f : f \in MissingOf(validated.folder))
        IN /\ validated.result.ok <=> PathIsValid
           /\ validated.result.ok => reason = <<"Valid">>
           /\ (validated.path = "" \/ ~validated.folder.exists) =>
                  reason = <<"Path does not exist">>
           /\ (validated.path # "" /\ validated.folder.exists /\ ~validated.result.ok) =>
                  /\ reason[1] = "Missing: "
                  /\ ListedIn(reason) = MissingOf(validated.folder)
                  /\ Len(reason) = 3 + 3 * Len(missing) + (Len(missing) - 1)
                  /\ \A i \in 1..Len(missing) : reason[4 * i] = missing[i]

\* A folder that lacks only steamapps: (False, "Missing: ['steamapps']")
C12_Witness ==
    /\ validated.called
    /\ validated.path = SteamPath
    /\ validated.folder.exists
    /\ validated.folder.entries = Essentials \ {"steamapps"}
    /\ ~validated.result.ok
    /\ validated.result.reason = <<"Missing: ", "[", "'", "steamapps", "'", "]">>

-----------------------------------------------------------------------------
(* Properties of the name resolution *)

\* C14: get_game_name returns a string, a display label or "Unknown", and
\* raises no exception, whatever the fate of the request and whatever the
\* shape of the JSON received.
C14_NeverRaises ==
    lookup.called =>
        /\ lookup.outcome.raised = "none"
        /\ lookup.outcome.value \in Labels

\* C16: update_game_names(E, D) sends requests only for identifiers of D
\* that are not keys of E, returns a mapping in which every key of E keeps
\* its label, and the keys of the mapping returned are the keys of E and the
\* identifiers of D.
C16_OnlyNewQueried ==
    named.called =>
        /\ \A i \in 1..Len(named.sent) :
               named.sent[i].appid \in Range(detected) \ KeySet(known_names)
        /\ named.raised = "none"
        /\ \A key \in KeySet(known_names) :
               /\ key \in KeySet(named.ret)
               /\ Value(named.ret, key) = Value(known_names, key)
        /\ KeySet(named.ret) = KeySet(known_names) \cup Range(detected)

-----------------------------------------------------------------------------
(* Properties of the installation locator *)

\* The registry keys whose value names a valid installation
ValidCandidates ==
    {i \in 1..Len(REGISTRY_PATHS) :
        /\ registry[i].result = "value"
        /\ registry[i].path # ""
        /\ validate_steam_path(registry[i].path, disk[registry[i].path]).ok}

Earliest(S) == CHOOSE i \in S : \A j \in S : i <= j

\* C15: when the registry is searched, the keys are opened in the order of
\* REGISTRY_PATHS, the path returned is the one of the earliest key that
\* names a valid installation, whatever the keys before it answer, and the
\* user is asked only when no key names a valid installation.
C15_FirstValidWins ==
    (located.called /\ located.source # "config") =>
        /\ located.tried = [i \in 1..Len(located.tried) |-> i]
        /\ ValidCandidates # {} =>
               /\ located.source = "registry"
               /\ located.path = registry[Earliest(ValidCandidates)].path
        /\ located.prompted => ValidCandidates = {}

\* The parts of C15 the code keeps: keys are opened in order, a key that
\* fails or names no existing folder is passed over, and a path taken from
\* the registry is the one of the earliest key naming an existing folder.
C15_FirstExistingWins ==
    (located.called /\ located.source # "config") =>
        LET there == {i \in 1..Len(REGISTRY_PATHS) :
                         /\ registry[i].result = "value"
                         /\ registry[i].path # ""
                         /\ disk[registry[i].path].exists}
        IN /\ located.tried = [i \in 1..Len(located.tried) |-> i]
           /\ located.source = "registry" =>
                  /\ there # {}
                  /\ located.path = registry[Earliest(there)].path
                  /\ Earliest(there) \in ValidCandidates
           /\ located.prompted <=>
                  (there = {} \/ Earliest(there) \notin ValidCandidates)

-----------------------------------------------------------------------------
(* Properties of run_backup *)

\* The last call made is the statistics sync
StatsAttempted ==
    /\ last.op = "backup_game_files"
    /\ last.backup_type = "stats"
    /\ run.stats_ok = ret

\* C17: once the plug-in sync has returned, whatever it returned, the
\* statistics sync is made before the summary; the statistics flag depends
\* on the statistics folder alone and leaves the plug-in flag as it was; the
\* summary is printed after both, from the two flags.
C17_StatsAlwaysAttempted ==
    /\ [](/\ run.pc = "summary" => StatsAttempted
          /\ run.pc \in {"summary", "done"} =>
                 /\ run.plugins_ok \in {"True", "False"}
                 /\ run.stats_ok \in {"True", "False"}
                 /\ run.stats_ok = "True" <=> src["stats"].exists
                 /\ ~src["plugins"].exists => run.plugins_ok = "False"
          /\ run.pc # "done" => run.summary = <<>>
          /\ run.pc = "done" =>
                 run.summary = _print_summary(run.plugins_ok, run.stats_ok))
    /\ [][/\ run.pc = "plugins" => run'.pc = "stats"
          /\ run.pc = "stats" => /\ run'.pc = "summary"
                                 /\ run'.plugins_ok = run.plugins_ok
          /\ run.pc = "summary" => /\ run'.pc = "done"
                                   /\ run'.plugins_ok = run.plugins_ok
                                   /\ run'.stats_ok = run.stats_ok]_vars

\* The plug-in folder is missing, the plug-in sync failed, and the statistics
\* sync still copied a file and succeeded
C17_Witness ==
    /\ run.pc = "summary"
    /\ ~src["plugins"].exists
    /\ run.plugins_ok = "False"
    /\ run.stats_ok = "True"
    /\ saved_files # <<>>

-----------------------------------------------------------------------------
(* Properties of main *)

\* C13: once the user has interrupted the run, at whatever step, the
\* cancellation message has been printed and KeyboardInterrupt has not left
\* main.
C13_InterruptCaught ==
    main.interrupted =>
        /\ main.cancelled
        /\ main.exit # "KeyboardInterrupt"

\* What the code keeps of C13: an interruption during a step of the try
\* block that is not swallowed by a bare except prints the message and
\* leads to the final prompt.
C13_CaughtInsideTry ==
    (main.interrupted /\ ~main.swallowed /\ main.exit # "KeyboardInterrupt") =>
        /\ main.cancelled
        /\ main.pc \in {"final", "exited"}
        /\ main.pc = "exited" => main.prompted

\* rclone mkdir made the remote folder or found it there
FolderCreated == main.mkdir \in {"0", "already exists"}

\* A step between the local backup and the upload failed
CloudStepFailed ==
    \/ main.confirmed = "False"
    \/ main.folder = "False"
    \/ main.remote = "False"
    \/ main.mkdir \notin {"none", "0", "already exists"}

\* C19: the upload is started only after run_backup has returned, with cloud
\* backup enabled and the upload confirmed, the backup folder present, the
\* remote set up and the remote folder created; when one of these steps
\* fails the upload is not started and the run goes on to the final prompt.
C19_UploadLast ==
    /\ main.upload # "none" =>
           /\ main.synced
           /\ main.cloud_enabled = "True"
           /\ main.confirmed = "True"
           /\ main.folder = "True"
           /\ main.remote = "True"
           /\ FolderCreated
    /\ (CloudStepFailed /\ ~main.interrupted) =>
           /\ main.upload = "none"
           /\ main.pc \in {"final", "exited"}
           /\ main.pc = "exited" => main.prompted

\* What the code keeps of C19, with create_gdrive_folder's own answer in
\* place of the outcome of rclone mkdir.
C19_UploadAfterTrueAnswers ==
    /\ main.upload # "none" =>
           /\ main.synced
           /\ main.cloud_enabled = "True"
           /\ main.confirmed = "True"
           /\ main.folder = "True"
           /\ main.remote = "True"
           /\ main.created = "True"
    /\ ("False" \in {main.confirmed, main.folder, main.remote, main.created}
            /\ ~main.interrupted) =>
           /\ main.upload = "none"
           /\ main.pc \in {"final", "exited"}
           /\ main.pc = "exited" => main.prompted

====
